---- MODULE Spec2Model ----
(***************************************************************************)
(* Model of the WebRTC signaling relay (webrtc-signaling-server.js) and of *)
(* the WebRTCManager negotiation client (webrtc-complete-example.js).      *)
(*                                                                         *)
(* Relay: every WebSocket connection is a handle in Conn; the handlers of  *)
(* wss.on('connection'), ws.on('message') and ws.on('close') are one       *)
(* action each (Node runs each handler to completion).  A client's frames  *)
(* travel to the relay through a FIFO inbox (the WebSocket), and every     *)
(* client.send(...) of the relay appends to the log of that socket.        *)
(***************************************************************************)
EXTENDS Integers, Sequences, FiniteSets, TLC

(* ------------------------------ bounds -------------------------------- *)
MaxConn == 3
MaxId == 3
MaxSends == 2
MaxMgr == 2
MaxOps == 4

(* JavaScript `undefined`: a missing field, a missing Map entry. *)
Undefined == 0

Conn == 1..MaxConn
(* the values generateClientId can return *)
Ids == 1..MaxId

ForwardTypes == {"offer", "answer", "ice-candidate"}
OtherTypes == {"join-room", "list-peers", "bye"}

VARIABLES
    readyState,   \* readyState[c]: "NEW" (not yet accepted), "OPEN", "CLOSING", "CLOSED"
    clientId,     \* clientId[c]: the const clientId captured by c's handlers
    clients,      \* the Map clients: clients[id] is a socket or Undefined
    inbox,        \* inbox[c]: frames the client of c has sent, not yet handled
    log,          \* log[c]: the frames passed to c.send(...), in order
    sent,         \* history: sent[n] = [conn, frame] of the n-th frame a client sent
    seen,         \* seen[c]: how many frames of log[c] the client's onmessage has got
    peerConnection, \* peerConnection[m]: Undefined (null) or the number of the
                    \* RTCPeerConnection this.peerConnection refers to
    created,      \* created[m]: how many RTCPeerConnections m has constructed
    pc,           \* pc[m]: state of the RTCPeerConnection peerConnection[m] refers to
    isInitiator,  \* this.isInitiator
    localStream,  \* this.localStream is not null
    dataChannel,  \* this.dataChannel is not null
    connected,    \* this.signaling.connected
    timers,       \* timers[m]: the setTimeout callbacks of signaling.send, oldest first
    tasks,        \* tasks[m]: the async calls of m suspended at an await
    errors,       \* errors[m]: the rejections of m's async calls, as <<function, error>>
    ops           \* how many calls the applications have made on their managers

relayVars == <<readyState, clientId, clients, inbox, log, sent, seen>>
mgrVars == <<peerConnection, created, pc, isInitiator, localStream, dataChannel,
             connected, timers, tasks, errors, ops>>
vars == <<readyState, clientId, clients, inbox, log, sent, seen,
          peerConnection, created, pc, isInitiator, localStream, dataChannel,
          connected, timers, tasks, errors, ops>>

(* ------------------------------ frames -------------------------------- *)
(* One JSON object per frame.  payload stands for the type-specific body   *)
(* (offer / answer / candidate); a client stamps it with the number of the *)
(* send, so that every frame a client sends is distinguishable.            *)
Frame(type, from, to, payload, id, peers, peerId) ==
    [type |-> type, from |-> from, to |-> to, payload |-> payload,
     id |-> id, peers |-> peers, peerId |-> peerId]

ClientFrame(type, from, to, payload) ==
    Frame(type, from, to, payload, Undefined, {}, Undefined)

(* What a client can put on the wire, by the branch of the relay it        *)
(* exercises: a forwardable frame that names a target, a forwardable frame *)
(* without `to` (with no `from`, or with a forged one), and the frames of  *)
(* the other branches (bytes that are not JSON included).                  *)
TargetedFrames(n) ==
    {ClientFrame(t, Undefined, to, n) : t \in ForwardTypes, to \in Ids}

BroadcastFrames(n, forged) ==
    {ClientFrame(t, f, Undefined, n) : t \in ForwardTypes, f \in forged \cup {Undefined}}

ControlFrames(n) ==
    {ClientFrame(t, Undefined, Undefined, n) : t \in OtherTypes \cup {"#not-json"}}

(* the frames the relay has no branch for or cannot route: bytes that are  *)
(* not JSON, a type no case names ("ping"; `bye` is such a type too), with *)
(* or without `to`, next to an offer that names a target, registered or    *)
(* not                                                                     *)
FaultyFrames(n) ==
    {ClientFrame(t, Undefined, Undefined, n) : t \in {"#not-json", "ping"}}
        \cup {ClientFrame(t, Undefined, to, n) : t \in {"bye", "offer"}, to \in Ids}

(* ------------------------------ relay --------------------------------- *)
(* generateClientId: two Math.random() strings, with no look at the Map.   *)
(* The relay only compares ids for equality, so the value returned is      *)
(* either one that was handed out before (to a client still connected or   *)
(* not) or a new one, named by the least number not handed out yet.        *)
generateClientId(assigned) ==
    {id \in Ids : \A k \in 1..(id - 1) : k \in assigned}

(* sendToClient without the look at readyState *)
sendToClient_AnyState(cl, rs, lg, id, message) ==
    LET client == IF id \in DOMAIN cl THEN cl[id] ELSE Undefined
    IN  IF client # Undefined
        THEN [lg EXCEPT ![client] = Append(@, message)]
        ELSE lg

(* sendToClient writing ahead of what the socket already holds *)
sendToClient_Prepend(cl, rs, lg, id, message) ==
    LET client == IF id \in DOMAIN cl THEN cl[id] ELSE Undefined
    IN  IF client # Undefined /\ rs[client] = "OPEN"
        THEN [lg EXCEPT ![client] = <<message>> \o @]
        ELSE lg

sendToClient(cl, rs, lg, id, message) ==
    LET client == IF id \in DOMAIN cl THEN cl[id] ELSE Undefined
    IN  IF client # Undefined /\ rs[client] = "OPEN"
        THEN [lg EXCEPT ![client] = Append(@, message)]
        ELSE lg

broadcast(cl, rs, lg, message, excludeClientId) ==
    [c \in Conn |->
        IF \E id \in DOMAIN cl :
              cl[id] = c /\ id # excludeClientId /\ rs[c] = "OPEN"
        THEN Append(lg[c], message)
        ELSE lg[c]]

peersOf(cl, fromClientId) ==
    {id \in DOMAIN cl : cl[id] # Undefined /\ id # fromClientId}

(* handleMessage forwarding the client's frame as it came, `from` included *)
handleMessage_KeepFrom(cl, rs, lg, fromClientId, message) ==
    CASE message.type \in ForwardTypes ->
            IF message.to # Undefined
            THEN sendToClient(cl, rs, lg, message.to, message)
            ELSE broadcast(cl, rs, lg, message, fromClientId)
      [] message.type = "join-room" -> lg
      [] message.type = "list-peers" ->
            sendToClient(cl, rs, lg, fromClientId,
                Frame("peers-list", Undefined, Undefined, Undefined, Undefined,
                      peersOf(cl, fromClientId), Undefined))
      [] OTHER -> lg

(* handleMessage passing a frame of a type it does not know on to the     *)
(* other clients                                                           *)
handleMessage_RelayUnknown(cl, rs, lg, fromClientId, message) ==
    CASE message.type \in ForwardTypes ->
            IF message.to # Undefined
            THEN sendToClient(cl, rs, lg, message.to,
                              [message EXCEPT !.from = fromClientId])
            ELSE broadcast(cl, rs, lg, message, fromClientId)
      [] message.type = "join-room" -> lg
      [] message.type = "list-peers" ->
            sendToClient(cl, rs, lg, fromClientId,
                Frame("peers-list", Undefined, Undefined, Undefined, Undefined,
                      peersOf(cl, fromClientId), Undefined))
      [] OTHER -> broadcast(cl, rs, lg, message, fromClientId)

handleMessage(cl, rs, lg, fromClientId, message) ==
    CASE message.type \in ForwardTypes ->
            IF message.to # Undefined
            THEN sendToClient(cl, rs, lg, message.to,
                              [message EXCEPT !.from = fromClientId])
            ELSE broadcast(cl, rs, lg, message, fromClientId)
      [] message.type = "join-room" -> lg
      [] message.type = "list-peers" ->
            sendToClient(cl, rs, lg, fromClientId,
                Frame("peers-list", Undefined, Undefined, Undefined, Undefined,
                      peersOf(cl, fromClientId), Undefined))
      [] OTHER -> lg

(* ws.on('message'): JSON.parse throws on bytes that are not JSON and the  *)
(* catch only logs.                                                        *)
onMessage(cl, rs, lg, fromClientId, raw) ==
    IF raw.type = "#not-json" THEN lg
    ELSE handleMessage(cl, rs, lg, fromClientId, raw)

Mgr == 1..MaxMgr

(* an RTCPeerConnection as new RTCPeerConnection(RTC_CONFIG) returns it;   *)
(* answered counts the answers applied as remote description since the     *)
(* local offer was set                                                     *)
NewPc == [signalingState |-> "stable", local |-> FALSE, remote |-> FALSE, answered |-> 0]

Init ==
    /\ readyState = [c \in Conn |-> "NEW"]
    /\ clientId = [c \in Conn |-> Undefined]
    /\ clients = [id \in Ids |-> Undefined]
    /\ inbox = [c \in Conn |-> <<>>]
    /\ log = [c \in Conn |-> <<>>]
    /\ sent = <<>>
    /\ seen = [c \in Conn |-> 0]
    \* new WebRTCManager(...), one per m
    /\ peerConnection = [m \in Mgr |-> Undefined]
    /\ created = [m \in Mgr |-> 0]
    /\ pc = [m \in Mgr |-> NewPc]
    /\ isInitiator = [m \in Mgr |-> FALSE]
    /\ localStream = [m \in Mgr |-> FALSE]
    /\ dataChannel = [m \in Mgr |-> FALSE]
    /\ connected = [m \in Mgr |-> FALSE]
    /\ timers = [m \in Mgr |-> <<>>]
    /\ tasks = [m \in Mgr |-> <<>>]
    /\ errors = [m \in Mgr |-> {}]
    /\ ops = 0

(* wss.on('connection') announcing the new id to every registered client *)
Connection_Announce(c, id) ==
    /\ readyState[c] = "NEW"
    /\ \A d \in Conn : d < c => readyState[d] # "NEW"
    /\ readyState' = [readyState EXCEPT ![c] = "OPEN"]
    /\ clientId' = [clientId EXCEPT ![c] = id]
    /\ clients' = [clients EXCEPT ![id] = c]
    /\ log' = broadcast(clients', readyState', log,
                  Frame("client-id", Undefined, Undefined, Undefined, id, {}, Undefined),
                  Undefined)
    /\ UNCHANGED <<inbox, sent, seen>>
    /\ UNCHANGED mgrVars

(* wss.on('connection'): handles are taken in order, the id is whatever    *)
(* generateClientId returns.                                               *)
Connection(c, id) ==
    /\ readyState[c] = "NEW"
    /\ \A d \in Conn : d < c => readyState[d] # "NEW"
    /\ readyState' = [readyState EXCEPT ![c] = "OPEN"]
    /\ clientId' = [clientId EXCEPT ![c] = id]
    /\ clients' = [clients EXCEPT ![id] = c]
    /\ log' = [log EXCEPT ![c] = Append(@,
                  Frame("client-id", Undefined, Undefined, Undefined, id, {}, Undefined))]
    /\ UNCHANGED <<inbox, sent, seen>>
    /\ UNCHANGED mgrVars

(* a client writes frame f to its open WebSocket *)
ClientSend(c, f) ==
    /\ readyState[c] = "OPEN"
    /\ Len(sent) < MaxSends
    /\ inbox' = [inbox EXCEPT ![c] = Append(@, f)]
    /\ sent' = Append(sent, [conn |-> c, frame |-> f])
    /\ UNCHANGED <<readyState, clientId, clients, log, seen>>
    /\ UNCHANGED mgrVars

(* ws.on('message') for the oldest frame not yet handled *)
Message(c) ==
    /\ readyState[c] = "OPEN"
    /\ inbox[c] # <<>>
    /\ log' = onMessage(clients, readyState, log, clientId[c], Head(inbox[c]))
    /\ inbox' = [inbox EXCEPT ![c] = Tail(@)]
    /\ UNCHANGED <<readyState, clientId, clients, sent, seen>>
    /\ UNCHANGED mgrVars

(* the closing handshake has started: the socket is CLOSING until its      *)
(* 'close' event; frames not yet handled are lost with it.                 *)
BeginClose(c) ==
    /\ readyState[c] = "OPEN"
    /\ readyState' = [readyState EXCEPT ![c] = "CLOSING"]
    /\ inbox' = [inbox EXCEPT ![c] = <<>>]
    /\ UNCHANGED <<clientId, clients, log, sent, seen>>
    /\ UNCHANGED mgrVars

(* ws.on('close') *)
Close(c) ==
    /\ readyState[c] \in {"OPEN", "CLOSING"}
    /\ LET rs == [readyState EXCEPT ![c] = "CLOSED"]
           cl == [clients EXCEPT ![clientId[c]] = Undefined]
       IN  /\ readyState' = rs
           /\ clients' = cl
           /\ log' = broadcast(cl, rs, log,
                        Frame("peer-disconnected", Undefined, Undefined, Undefined,
                              Undefined, {}, clientId[c]),
                        clientId[c])
    /\ inbox' = [inbox EXCEPT ![c] = <<>>]
    /\ UNCHANGED <<clientId, sent, seen>>
    /\ UNCHANGED mgrVars

Lifecycle ==
    \/ \E c \in Conn, id \in generateClientId({clientId[d] : d \in Conn}) : Connection(c, id)
    \/ \E c \in Conn : Message(c)
    \/ \E c \in Conn : BeginClose(c)
    \/ \E c \in Conn : Close(c)

(* clients that address their frames *)
NextTargeted ==
    \/ Lifecycle
    \/ \E c \in Conn, f \in TargetedFrames(Len(sent) + 1) : ClientSend(c, f)

(* clients that send without `to`; a forged `from` is the id of another    *)
(* connection                                                              *)
NextBroadcast ==
    \/ Lifecycle
    \/ \E c \in Conn :
          \E f \in BroadcastFrames(Len(sent) + 1, {clientId[d] : d \in Conn \ {c}}) :
              ClientSend(c, f)

(* clients that send the frames of the other branches *)
NextControl ==
    \/ Lifecycle
    \/ \E c \in Conn, f \in ControlFrames(Len(sent) + 1) : ClientSend(c, f)

(* clients that send what the relay does not handle *)
NextFaulty ==
    \/ Lifecycle
    \/ \E c \in Conn, f \in FaultyFrames(Len(sent) + 1) : ClientSend(c, f)

SpecTargeted == Init /\ [][NextTargeted]_vars
SpecBroadcast == Init /\ [][NextBroadcast]_vars
SpecControl == Init /\ [][NextControl]_vars
SpecFaulty == Init /\ [][NextFaulty]_vars

(* ============================ WebRTCManager ============================ *)
(* webrtc-complete-example.js.  Every manager owns a SignalingChannel      *)
(* whose send() hands the message back to the manager's own onmessage      *)
(* through setTimeout(..., 100); timers of equal delay fire in the order   *)
(* they were set.  An async method runs up to its next await in one step   *)
(* and is resumed when the awaited promise settles.                        *)

(* a signaling message; origin is the number of the RTCPeerConnection      *)
(* whose description or candidate it carries                               *)
SignalingMessage(type, origin) == [type |-> type, origin |-> origin]

(* an async call suspended in `await this.peerConnection.<at>(...)`, the   *)
(* operation having been invoked on RTCPeerConnection number pcn           *)
Task(fn, at, pcn) == [fn |-> fn, at |-> at, pcn |-> pcn]

RemoveAt(q, i) == SubSeq(q, 1, i - 1) \o SubSeq(q, i + 1, Len(q))

(* SignalingChannel.send whose newest timer fires first *)
signalingSend_Newest(queue, data) == <<data>> \o queue

(* SignalingChannel.send: onmessage is bound in the constructor of the     *)
(* manager and never reset, so the timer is always set; `connected` is     *)
(* not read.                                                               *)
signalingSend(queue, data) == Append(queue, data)

(* the type of the description the awaited operation of task t works on *)
DescriptionOf(t) ==
    CASE t.fn = "initiateCall" -> "offer"
      [] t.fn = "handleOffer" /\ t.at = "setRemoteDescription" -> "offer"
      [] t.fn = "handleOffer" -> "answer"
      [] t.fn = "handleAnswer" -> "answer"
      [] OTHER -> "candidate"

(* an RTCPeerConnection that takes an answer in every state but closed *)
PcOutcomes_AnyAnswer(p, at, desc) ==
    CASE p.signalingState = "closed" -> {FALSE}
      [] at = "createOffer" -> {TRUE}
      [] at = "setLocalDescription" /\ desc = "offer" ->
            {p.signalingState \in {"stable", "have-local-offer"}}
      [] at = "setRemoteDescription" /\ desc = "offer" ->
            IF p.signalingState = "have-local-offer" THEN {TRUE, FALSE}
            ELSE {p.signalingState \in {"stable", "have-remote-offer"}}
      [] at = "createAnswer" -> {p.signalingState = "have-remote-offer"}
      [] at = "setLocalDescription" /\ desc = "answer" ->
            {p.signalingState = "have-remote-offer"}
      [] at = "setRemoteDescription" /\ desc = "answer" -> {TRUE}
      [] at = "addIceCandidate" -> {p.remote}
      [] OTHER -> {FALSE}

(* RTCPeerConnection: can the operation succeed on a connection in state   *)
(* p?  (setRemoteDescription(offer) in have-local-offer succeeds where     *)
(* the browser rolls the local offer back, and fails elsewhere.)           *)
PcOutcomes(p, at, desc) ==
    CASE p.signalingState = "closed" -> {FALSE}
      [] at = "createOffer" -> {TRUE}
      [] at = "setLocalDescription" /\ desc = "offer" ->
            {p.signalingState \in {"stable", "have-local-offer"}}
      [] at = "setRemoteDescription" /\ desc = "offer" ->
            IF p.signalingState = "have-local-offer" THEN {TRUE, FALSE}
            ELSE {p.signalingState \in {"stable", "have-remote-offer"}}
      [] at = "createAnswer" -> {p.signalingState = "have-remote-offer"}
      [] at = "setLocalDescription" /\ desc = "answer" ->
            {p.signalingState = "have-remote-offer"}
      [] at = "setRemoteDescription" /\ desc = "answer" ->
            {p.signalingState = "have-local-offer"}
      [] at = "addIceCandidate" -> {p.remote}
      [] OTHER -> {FALSE}

(* RTCPeerConnection: the state after the operation has succeeded *)
PcApply(p, at, desc) ==
    CASE at = "setLocalDescription" /\ desc = "offer" ->
            [p EXCEPT !.signalingState = "have-local-offer", !.local = TRUE,
                      !.answered = 0]
      [] at = "setRemoteDescription" /\ desc = "offer" ->
            [p EXCEPT !.signalingState = "have-remote-offer", !.remote = TRUE]
      [] at = "setLocalDescription" /\ desc = "answer" ->
            [p EXCEPT !.signalingState = "stable", !.local = TRUE]
      [] at = "setRemoteDescription" /\ desc = "answer" ->
            [p EXCEPT !.signalingState = "stable", !.remote = TRUE,
                      !.answered = @ + 1]
      [] OTHER -> p

(* initiateCall sending the offer as soon as createOffer has returned it *)
NextStep_OfferEarly(fn, at) ==
    CASE fn = "initiateCall" /\ at = "createOffer" -> "send"
      [] fn = "handleOffer" /\ at = "setRemoteDescription" -> "createAnswer"
      [] fn = "handleOffer" /\ at = "createAnswer" -> "setLocalDescription"
      [] fn = "handleOffer" /\ at = "setLocalDescription" -> "send"
      [] OTHER -> "return"

(* handleOffer sending the answer as soon as createAnswer has returned it *)
NextStep_SendEarly(fn, at) ==
    CASE fn = "initiateCall" /\ at = "createOffer" -> "setLocalDescription"
      [] fn = "initiateCall" /\ at = "setLocalDescription" -> "send"
      [] fn = "handleOffer" /\ at = "setRemoteDescription" -> "createAnswer"
      [] fn = "handleOffer" /\ at = "createAnswer" -> "send"
      [] OTHER -> "return"

(* the operation an async method invokes after `at` has succeeded, or      *)
(* "send" when the next statement is signaling.send, or "return"           *)
NextStep(fn, at) ==
    CASE fn = "initiateCall" /\ at = "createOffer" -> "setLocalDescription"
      [] fn = "initiateCall" /\ at = "setLocalDescription" -> "send"
      [] fn = "handleOffer" /\ at = "setRemoteDescription" -> "createAnswer"
      [] fn = "handleOffer" /\ at = "createAnswer" -> "setLocalDescription"
      [] fn = "handleOffer" /\ at = "setLocalDescription" -> "send"
      [] OTHER -> "return"

(* signaling.connect() *)
Connect(m) ==
    /\ ops < MaxOps
    /\ ~connected[m]
    /\ connected' = [connected EXCEPT ![m] = TRUE]
    /\ ops' = ops + 1
    /\ UNCHANGED <<peerConnection, created, pc, isInitiator, localStream, dataChannel,
                   timers, tasks, errors>>
    /\ UNCHANGED relayVars

(* startLocalMedia(), getUserMedia granted *)
StartLocalMedia(m) ==
    /\ ops < MaxOps
    /\ ~localStream[m]
    /\ localStream' = [localStream EXCEPT ![m] = TRUE]
    /\ ops' = ops + 1
    /\ UNCHANGED <<peerConnection, created, pc, isInitiator, dataChannel, connected,
                   timers, tasks, errors>>
    /\ UNCHANGED relayVars

(* createDataChannel(): throws without a peer connection *)
CreateDataChannel(m) ==
    /\ ops < MaxOps
    /\ ops' = ops + 1
    /\ IF peerConnection[m] = Undefined
       THEN /\ errors' = [errors EXCEPT ![m] =
                    @ \cup {<<"createDataChannel", "Peer connection not created">>}]
            /\ UNCHANGED dataChannel
       ELSE /\ dataChannel' = [dataChannel EXCEPT ![m] = TRUE]
            /\ UNCHANGED errors
    /\ UNCHANGED <<peerConnection, created, pc, isInitiator, localStream, connected,
                   timers, tasks>>
    /\ UNCHANGED relayVars

(* initiateCall that calls createPeerConnection without the look at        *)
(* this.peerConnection                                                     *)
InitiateCall_AlwaysCreate(m) ==
    /\ ops < MaxOps
    /\ ops' = ops + 1
    /\ peerConnection' = [peerConnection EXCEPT ![m] = created[m] + 1]
    /\ created' = [created EXCEPT ![m] = @ + 1]
    /\ pc' = [pc EXCEPT ![m] = NewPc]
    /\ tasks' = [tasks EXCEPT ![m] =
                     Append(@, Task("initiateCall", "createOffer", created[m] + 1))]
    /\ isInitiator' = [isInitiator EXCEPT ![m] = TRUE]
    /\ UNCHANGED <<localStream, dataChannel, connected, timers, errors>>
    /\ UNCHANGED relayVars

(* initiateCall(), up to `await this.peerConnection.createOffer(...)` *)
InitiateCall(m) ==
    /\ ops < MaxOps
    /\ ops' = ops + 1
    /\ LET fresh == peerConnection[m] = Undefined
           pcn == IF fresh THEN created[m] + 1 ELSE peerConnection[m]
       IN  /\ peerConnection' = [peerConnection EXCEPT ![m] = pcn]
           /\ created' = [created EXCEPT ![m] = IF fresh THEN @ + 1 ELSE @]
           /\ pc' = [pc EXCEPT ![m] = IF fresh THEN NewPc ELSE @]
           /\ tasks' = [tasks EXCEPT ![m] =
                            Append(@, Task("initiateCall", "createOffer", pcn))]
    /\ isInitiator' = [isInitiator EXCEPT ![m] = TRUE]
    /\ UNCHANGED <<localStream, dataChannel, connected, timers, errors>>
    /\ UNCHANGED relayVars

(* handleSignalingMessage whose handleAnswer and handleIceCandidate go to  *)
(* the peer connection without the look at this.peerConnection             *)
Dispatch_Unguarded(m, message) ==
    /\ LET fresh == peerConnection[m] = Undefined
           pcn == IF fresh THEN created[m] + 1 ELSE peerConnection[m]
       IN  CASE message.type = "offer" ->
                  /\ peerConnection' = [peerConnection EXCEPT ![m] = pcn]
                  /\ created' = [created EXCEPT ![m] = IF fresh THEN @ + 1 ELSE @]
                  /\ pc' = [pc EXCEPT ![m] = IF fresh THEN NewPc ELSE @]
                  /\ isInitiator' = [isInitiator EXCEPT ![m] = FALSE]
                  /\ tasks' = [tasks EXCEPT ![m] =
                          Append(@, Task("handleOffer", "setRemoteDescription", pcn))]
                  /\ UNCHANGED errors
             [] message.type \in {"answer", "ice-candidate"} ->
                  LET fn == IF message.type = "answer" THEN "handleAnswer"
                            ELSE "handleIceCandidate"
                      at == IF message.type = "answer" THEN "setRemoteDescription"
                            ELSE "addIceCandidate"
                  IN  /\ tasks' = [tasks EXCEPT ![m] =
                                     Append(@, Task(fn, at, peerConnection[m]))]
                      /\ UNCHANGED <<peerConnection, created, pc, isInitiator, errors>>
             [] OTHER ->
                  UNCHANGED <<peerConnection, created, pc, isInitiator, tasks, errors>>
    /\ UNCHANGED <<localStream, dataChannel, connected, ops>>

(* handleSignalingMessage(message), up to the first await of handleOffer / *)
(* handleAnswer / handleIceCandidate                                       *)
Dispatch(m, message) ==
    /\ LET fresh == peerConnection[m] = Undefined
           pcn == IF fresh THEN created[m] + 1 ELSE peerConnection[m]
       IN  CASE message.type = "offer" ->
                  /\ peerConnection' = [peerConnection EXCEPT ![m] = pcn]
                  /\ created' = [created EXCEPT ![m] = IF fresh THEN @ + 1 ELSE @]
                  /\ pc' = [pc EXCEPT ![m] = IF fresh THEN NewPc ELSE @]
                  /\ isInitiator' = [isInitiator EXCEPT ![m] = FALSE]
                  /\ tasks' = [tasks EXCEPT ![m] =
                          Append(@, Task("handleOffer", "setRemoteDescription", pcn))]
                  /\ UNCHANGED errors
             [] message.type \in {"answer", "ice-candidate"} ->
                  LET fn == IF message.type = "answer" THEN "handleAnswer"
                            ELSE "handleIceCandidate"
                      at == IF message.type = "answer" THEN "setRemoteDescription"
                            ELSE "addIceCandidate"
                  IN  /\ IF fresh
                         THEN /\ errors' = [errors EXCEPT ![m] =
                                     @ \cup {<<fn, "Peer connection not created">>}]
                              /\ UNCHANGED tasks
                         ELSE /\ tasks' = [tasks EXCEPT ![m] =
                                     Append(@, Task(fn, at, peerConnection[m]))]
                              /\ UNCHANGED errors
                      /\ UNCHANGED <<peerConnection, created, pc, isInitiator>>
             [] OTHER ->
                  UNCHANGED <<peerConnection, created, pc, isInitiator, tasks, errors>>
    /\ UNCHANGED <<localStream, dataChannel, connected, ops>>

(* the setTimeout callback of signaling.send: onmessage with the oldest    *)
(* message sent                                                            *)
HandleSignalingMessage(m) ==
    /\ timers[m] # <<>>
    /\ timers' = [timers EXCEPT ![m] = Tail(@)]
    /\ Dispatch(m, Head(timers[m]))
    /\ UNCHANGED relayVars

(* the promise task i of m awaits settles (ok: fulfilled, else rejected)   *)
(* and the method runs on to its next await, its send or its throw.  An    *)
(* operation on a connection that endCall has closed meanwhile may have    *)
(* settled either way.                                                     *)
Resume(m, i, ok) ==
    /\ i \in DOMAIN tasks[m]
    /\ LET t == tasks[m][i]
           same == peerConnection[m] = t.pcn
           desc == DescriptionOf(t)
           p == IF same /\ ok THEN PcApply(pc[m], t.at, desc) ELSE pc[m]
           next == NextStep(t.fn, t.at)
       IN  /\ ok \in (IF same THEN PcOutcomes(pc[m], t.at, desc) ELSE {TRUE, FALSE})
           /\ pc' = [pc EXCEPT ![m] = p]
           /\ IF ~ok
              THEN \* catch (error) { console.error(...); throw error; }
                   /\ errors' = [errors EXCEPT ![m] = @ \cup {<<t.fn, "rejected">>}]
                   /\ tasks' = [tasks EXCEPT ![m] = RemoveAt(@, i)]
                   /\ UNCHANGED timers
              ELSE CASE next = "return" ->
                          /\ tasks' = [tasks EXCEPT ![m] = RemoveAt(@, i)]
                          /\ UNCHANGED <<timers, errors>>
                     [] next = "send" ->
                          /\ tasks' = [tasks EXCEPT ![m] = RemoveAt(@, i)]
                          /\ timers' = [timers EXCEPT ![m] =
                                  signalingSend(@, SignalingMessage(desc, t.pcn))]
                          /\ UNCHANGED errors
                     [] OTHER ->
                          IF peerConnection[m] = Undefined
                          THEN \* this.peerConnection is null: TypeError, rethrown
                               /\ errors' = [errors EXCEPT ![m] =
                                       @ \cup {<<t.fn, "TypeError">>}]
                               /\ tasks' = [tasks EXCEPT ![m] = RemoveAt(@, i)]
                               /\ UNCHANGED timers
                          ELSE /\ tasks' = [tasks EXCEPT ![m][i] =
                                       Task(t.fn, next, peerConnection[m])]
                               /\ UNCHANGED <<timers, errors>>
    /\ UNCHANGED <<peerConnection, created, isInitiator, localStream, dataChannel,
                   connected, ops>>
    /\ UNCHANGED relayVars

(* peerConnection.onicecandidate with a candidate: gathering runs once a   *)
(* local description is set                                                *)
IceCandidate(m) ==
    /\ ops < MaxOps
    /\ peerConnection[m] # Undefined
    /\ pc[m].local
    /\ ops' = ops + 1
    /\ timers' = [timers EXCEPT ![m] =
            signalingSend(@, SignalingMessage("ice-candidate", peerConnection[m]))]
    /\ UNCHANGED <<peerConnection, created, pc, isInitiator, localStream, dataChannel,
                   connected, tasks, errors>>
    /\ UNCHANGED relayVars

(* endCall that closes the peer connection and stops the tracks only: the  *)
(* data channel and the signaling channel stay as they are                 *)
EndCall_KeepChannels(m) ==
    /\ ops < MaxOps
    /\ ops' = ops + 1
    /\ peerConnection' = [peerConnection EXCEPT ![m] = Undefined]
    /\ pc' = [pc EXCEPT ![m] =
            IF peerConnection[m] # Undefined
            THEN [@ EXCEPT !.signalingState = "closed"] ELSE @]
    /\ localStream' = [localStream EXCEPT ![m] = FALSE]
    /\ UNCHANGED <<dataChannel, connected, created, isInitiator, timers, tasks, errors>>
    /\ UNCHANGED relayVars

(* endCall() *)
EndCall(m) ==
    /\ ops < MaxOps
    /\ ops' = ops + 1
    /\ peerConnection' = [peerConnection EXCEPT ![m] = Undefined]
    /\ pc' = [pc EXCEPT ![m] =
            IF peerConnection[m] # Undefined
            THEN [@ EXCEPT !.signalingState = "closed"] ELSE @]
    /\ localStream' = [localStream EXCEPT ![m] = FALSE]
    /\ dataChannel' = [dataChannel EXCEPT ![m] = FALSE]
    /\ connected' = [connected EXCEPT ![m] = FALSE]
    /\ UNCHANGED <<created, isInitiator, timers, tasks, errors>>
    /\ UNCHANGED relayVars

NextManager ==
    \/ \E m \in Mgr : Connect(m)
    \/ \E m \in Mgr : StartLocalMedia(m)
    \/ \E m \in Mgr : CreateDataChannel(m)
    \/ \E m \in Mgr : InitiateCall(m)
    \/ \E m \in Mgr : HandleSignalingMessage(m)
    \/ \E m \in Mgr : \E i \in DOMAIN tasks[m], ok \in BOOLEAN : Resume(m, i, ok)
    \/ \E m \in Mgr : IceCandidate(m)
    \/ \E m \in Mgr : EndCall(m)

SpecManager == Init /\ [][NextManager]_vars

(* the relay's close handler has broadcast peer-disconnected for the       *)
(* remote peer and the frame is handed to onmessage of m's channel         *)
PeerDisconnected(m) ==
    /\ ops < MaxOps
    /\ connected[m]
    /\ ops' = ops + 1
    /\ timers' = [timers EXCEPT ![m] =
            Append(@, SignalingMessage("peer-disconnected", Undefined))]
    /\ UNCHANGED <<peerConnection, created, pc, isInitiator, localStream, dataChannel,
                   connected, tasks, errors>>
    /\ UNCHANGED relayVars

(* managers whose remote peer can disconnect from the relay *)
NextHangup ==
    \/ NextManager
    \/ \E m \in Mgr : PeerDisconnected(m)

(* a timer that is due fires and an awaited promise settles; that the      *)
(* application calls a method is never taken for granted                   *)
Fairness ==
    \A m \in Mgr :
        /\ WF_vars(HandleSignalingMessage(m))
        /\ WF_vars(\E i \in DOMAIN tasks[m], ok \in BOOLEAN : Resume(m, i, ok))

SpecHangup == Init /\ [][NextHangup]_vars /\ Fairness

(* ====================== two clients of the relay ======================= *)
(* The application of the README: every client is a WebRTCManager whose    *)
(* channel is a WebSocket to the relay ("In real app: this.ws.send(        *)
(* JSON.stringify(data))"), so what send() is given travels to the relay   *)
(* instead of back to its own onmessage, and the frames the relay writes   *)
(* to the socket arrive at onmessage.  Manager m owns socket m; timers[m]  *)
(* holds what m has passed to send() and the socket has not carried yet.   *)

(* ws.send: the oldest message passed to send() reaches the relay *)
WsSend(m) ==
    /\ timers[m] # <<>>
    /\ readyState[m] = "OPEN"
    /\ LET f == ClientFrame(Head(timers[m]).type, Undefined, Undefined, Len(sent) + 1)
       IN  /\ inbox' = [inbox EXCEPT ![m] = Append(@, f)]
           /\ sent' = Append(sent, [conn |-> m, frame |-> f])
    /\ timers' = [timers EXCEPT ![m] = Tail(@)]
    /\ UNCHANGED <<readyState, clientId, clients, log, seen>>
    /\ UNCHANGED <<peerConnection, created, pc, isInitiator, localStream, dataChannel,
                   connected, tasks, errors, ops>>

(* ws.onmessage: the next frame of the relay is handed to                  *)
(* handleSignalingMessage                                                  *)
WsMessage(m) ==
    /\ seen[m] < Len(log[m])
    /\ seen' = [seen EXCEPT ![m] = @ + 1]
    /\ Dispatch(m, log[m][seen[m] + 1])
    /\ UNCHANGED timers
    /\ UNCHANGED <<readyState, clientId, clients, inbox, log, sent>>

(* README, Quick Start step 4: both clients connect to the server and one  *)
(* of them starts a call; nobody disconnects or ends the call              *)
NextCall ==
    \/ \E m \in Mgr : Connect(m)
    \/ \E m \in Mgr, id \in generateClientId({clientId[d] : d \in Conn}) :
          connected[m] /\ Connection(m, id)
    \/ \E m \in Mgr :
          /\ readyState[m] = "OPEN"
          /\ \A k \in Mgr : created[k] = 0
          /\ InitiateCall(m)
    \/ \E m \in Mgr : \E i \in DOMAIN tasks[m], ok \in BOOLEAN : Resume(m, i, ok)
    \/ \E m \in Mgr : IceCandidate(m)
    \/ \E m \in Mgr : WsSend(m)
    \/ \E m \in Mgr : Message(m)
    \/ \E m \in Mgr : WsMessage(m)

(* the network carries what is sent, the relay handles what arrives, and   *)
(* an awaited promise settles                                              *)
FairnessCall ==
    \A m \in Mgr :
        /\ WF_vars(WsSend(m))
        /\ WF_vars(Message(m))
        /\ WF_vars(WsMessage(m))
        /\ WF_vars(\E i \in DOMAIN tasks[m], ok \in BOOLEAN : Resume(m, i, ok))

SpecCall == Init /\ [][NextCall]_vars /\ FairnessCall

(* what a further client puts on the wire: its answer, without `to` *)
AnswerFrames(n) == {ClientFrame("answer", Undefined, Undefined, n)}

(* the two clients and further clients of the relay that answer *)
NextDiscovery ==
    \/ NextCall
    \/ \E c \in Conn \ Mgr, id \in generateClientId({clientId[d] : d \in Conn}) :
          Connection(c, id)
    \/ \E c \in Conn \ Mgr, f \in AnswerFrames(Len(sent) + 1) : ClientSend(c, f)
    \/ \E c \in Conn \ Mgr : Message(c)

SpecDiscovery == Init /\ [][NextDiscovery]_vars

(* ===================== properties of the relay ========================= *)
(* the connection a delivered client frame arrived on *)
SenderOf(f) == sent[f.payload].conn

IsForwarded(f) == f.type \in ForwardTypes

(* c is in the registry under its own id *)
Registered(c) ==
    /\ clientId[c] \in DOMAIN clients
    /\ clients[clientId[c]] = c

(* this step is ws.on('message') of a for the frame Head(inbox[a]) *)
MessageStep(a) ==
    /\ readyState[a] = "OPEN"
    /\ inbox[a] # <<>>
    /\ readyState'[a] = "OPEN"
    /\ inbox'[a] = Tail(inbox[a])

(* this step is ws.on('close') of a *)
CloseStep(a) ==
    /\ readyState[a] \in {"OPEN", "CLOSING"}
    /\ readyState'[a] = "CLOSED"

(* an offer (answer) that a sent has been delivered to b *)
Delivered(type, a, b) ==
    \E i \in DOMAIN log[b] :
        /\ log[b][i].type = type
        /\ SenderOf(log[b][i]) = a

(* C1: every offer, answer or ice-candidate frame the relay delivers       *)
(* carries as `from` the registry id of the connection it arrived on, on   *)
(* the targeted and on the broadcast path.                                 *)
C1_FromIsRelayAssigned ==
    \A r \in Conn : \A i \in DOMAIN log[r] :
        IsForwarded(log[r][i]) => log[r][i].from = clientId[SenderOf(log[r][i])]

(* C2: the ids of the clients connected at the same time are pairwise      *)
(* distinct, and every connected client keeps its registry entry.          *)
C2_IdsDistinct ==
    \A c, d \in Conn :
        (c # d /\ readyState[c] = "OPEN" /\ readyState[d] = "OPEN")
            => (clientId[c] # clientId[d] /\ Registered(c))

(* C3: the frames of one sender that reach a recipient reach it in the     *)
(* order in which the sender sent them.                                    *)
C3_PerSenderOrder ==
    \A r \in Conn : \A i, j \in DOMAIN log[r] :
        (/\ i < j
         /\ IsForwarded(log[r][i]) /\ IsForwarded(log[r][j])
         /\ SenderOf(log[r][i]) = SenderOf(log[r][j]))
            => log[r][i].payload < log[r][j].payload

(* two frames of one sender have reached the same recipient *)
C3_Witness ==
    \E r \in Conn : \E i, j \in DOMAIN log[r] :
        /\ i < j
        /\ IsForwarded(log[r][i]) /\ IsForwarded(log[r][j])
        /\ SenderOf(log[r][i]) = SenderOf(log[r][j])
        /\ SenderOf(log[r][i]) # r

(* C4: when A disconnects while B holds an offer of A (or A an offer of    *)
(* B), B receives exactly one termination notification for A and the       *)
(* registry keeps nothing of A.                                            *)
C4_TerminationNotified ==
    [][\A a, b \in Conn :
        (/\ CloseStep(a)
         /\ a # b
         /\ readyState[b] = "OPEN"
         /\ (Delivered("offer", a, b) \/ Delivered("offer", b, a)))
            => /\ log'[b] = Append(log[b],
                     Frame("peer-disconnected", Undefined, Undefined, Undefined,
                           Undefined, {}, clientId[a]))
               /\ \A id \in DOMAIN clients' : clients'[id] # a]_vars

(* C5: an ice-candidate of A reaches B only after an offer or answer of A  *)
(* has reached B (a candidate sent earlier is held back, not forwarded     *)
(* at once).                                                               *)
C5_CandidateAfterDescription ==
    \A b \in Conn : \A i \in DOMAIN log[b] :
        log[b][i].type = "ice-candidate"
            => \E j \in 1..(i - 1) :
                  /\ log[b][j].type \in {"offer", "answer"}
                  /\ SenderOf(log[b][j]) = SenderOf(log[b][i])

(* C6: of two offers that cross between A and B, at most one is            *)
(* forwarded: as long as no answer has passed between them, A and B do     *)
(* not both hold the other's offer.                                        *)
C6_GlareOneOfferSurvives ==
    \A a, b \in Conn :
        (a # b /\ Delivered("offer", a, b) /\ Delivered("offer", b, a))
            => (Delivered("answer", a, b) \/ Delivered("answer", b, a))

(* C8: a forwardable frame of registered A with `to` = registered, open B  *)
(* puts exactly one frame on B's socket, the frame A sent with `from` = A, *)
(* and nothing on any other socket.                                        *)
C8_TargetedDelivery ==
    [][\A a, b \in Conn :
        (/\ MessageStep(a)
         /\ Registered(a) /\ Registered(b)
         /\ readyState[b] = "OPEN"
         /\ IsForwarded(Head(inbox[a]))
         /\ Head(inbox[a]).to = clientId[b])
            => log' = [log EXCEPT ![b] =
                          Append(@, [Head(inbox[a]) EXCEPT !.from = clientId[a]])]]_vars

(* A's frame has reached B and not the third client, which is registered   *)
(* and open                                                                *)
C8_Witness ==
    \E a, b, c \in Conn : \E n \in DOMAIN sent :
        /\ a # b /\ a # c /\ b # c
        /\ sent[n].conn = a
        /\ sent[n].frame.to = clientId[b]
        /\ Registered(a) /\ Registered(b) /\ Registered(c)
        /\ readyState[c] = "OPEN"
        /\ \E i \in DOMAIN log[b] : log[b][i].payload = n
        /\ \A i \in DOMAIN log[c] : log[c][i].payload # n
        /\ \A i \in DOMAIN log[a] : log[a][i].payload # n

(* C9: a forwardable frame of A without `to` puts exactly one frame, A's,  *)
(* on the socket of every other registered open client and none on A's.    *)
C9_BroadcastDelivery ==
    [][\A a \in Conn :
        (/\ MessageStep(a)
         /\ IsForwarded(Head(inbox[a]))
         /\ Head(inbox[a]).to = Undefined)
            => /\ log'[a] = log[a]
               /\ \A c \in Conn \ {a} :
                    (Registered(c) /\ readyState[c] = "OPEN")
                        => /\ Len(log'[c]) = Len(log[c]) + 1
                           /\ log'[c][Len(log'[c])].type = Head(inbox[a]).type
                           /\ log'[c][Len(log'[c])].payload = Head(inbox[a]).payload]_vars

(* C10: list-peers of A is answered with exactly one peers-list frame, on  *)
(* A's socket only, listing the registry's ids without A's.                *)
C10_ListPeers ==
    [][\A a \in Conn :
        (MessageStep(a) /\ Head(inbox[a]).type = "list-peers")
            => log' = [log EXCEPT ![a] = Append(@,
                          Frame("peers-list", Undefined, Undefined, Undefined, Undefined,
                                {id \in DOMAIN clients : clients[id] # Undefined}
                                    \ {clientId[a]},
                                Undefined))]]_vars

(* this step is wss.on('connection') for c *)
ConnectionStep(c) ==
    /\ readyState[c] = "NEW"
    /\ readyState'[c] = "OPEN"

(* C11: the connection handler registers the new client under its id and   *)
(* puts exactly one frame on the wire, the client-id frame with that id,   *)
(* on the new socket, which has carried nothing before; no other step      *)
(* puts a client-id frame anywhere, so none follows another frame and      *)
(* none reaches another client.                                            *)
C11_ClientIdFirst ==
    [][\A c \in Conn :
        IF ConnectionStep(c)
        THEN /\ clients'[clientId'[c]] = c
             /\ log' = [log EXCEPT ![c] =
                           <<Frame("client-id", Undefined, Undefined, Undefined,
                                   clientId'[c], {}, Undefined)>>]
        ELSE \A i \in DOMAIN log'[c] :
                log'[c][i].type = "client-id"
                    => (i = 1 /\ log'[c][i].id = clientId'[c])]_vars

(* a client has received its client-id frame and two more frames after it  *)
(* while another client is connected                                       *)
C11_Witness ==
    \E c, d \in Conn :
        /\ c # d
        /\ readyState[d] = "OPEN"
        /\ Len(log[c]) >= 3
        /\ log[c][1].type = "client-id"
        /\ log[d] # <<>>

(* C12: whenever a handler writes to the socket of c, c is in the          *)
(* registry and its socket is open at that point of the handler (after     *)
(* the handler's own set or delete); so nothing is routed to a client      *)
(* that is closing, closed or removed, however the events interleave.      *)
C12_OnlyRegisteredOpen ==
    [][\A c \in Conn :
        log'[c] # log[c]
            => /\ readyState'[c] = "OPEN"
               /\ \E id \in DOMAIN clients' : clients'[id] = c]_vars

(* A's first frame has reached B; A's second frame, addressed to B's id,   *)
(* has been handled with B closing, closed or out of the registry and is   *)
(* not on B's socket                                                       *)
C12_Witness ==
    \E a, b \in Conn :
        /\ a # b
        /\ Len(sent) = 2
        /\ sent[1].conn = a /\ sent[2].conn = a
        /\ sent[2].frame.to = clientId[b]
        /\ readyState[a] = "OPEN" /\ inbox[a] = <<>>
        /\ \E i \in DOMAIN log[b] : log[b][i].payload = 1
        /\ \A i \in DOMAIN log[b] : log[b][i].payload # 2

(* the handler of this step has put exactly one frame on the socket of a,  *)
(* an error frame                                                          *)
ErrorSentTo(a) ==
    /\ Len(log'[a]) = Len(log[a]) + 1
    /\ log'[a][Len(log'[a])].type = "error"

(* C13: bytes of registered A that cannot be decoded are answered with an  *)
(* error frame on A's socket; nothing reaches another client and A stays   *)
(* open and registered.                                                    *)
C13_UndecodableAnswered ==
    [][\A a \in Conn :
        (MessageStep(a) /\ Registered(a) /\ Head(inbox[a]).type = "#not-json")
            => /\ ErrorSentTo(a)
               /\ \A c \in Conn \ {a} : log'[c] = log[c]
               /\ readyState'[a] = "OPEN"
               /\ clients'[clientId'[a]] = a]_vars

(* no client is registered under id *)
UnknownTarget(id) == id \notin DOMAIN clients \/ clients[id] = Undefined

(* C14: an offer, answer or ice-candidate of A whose `to` is not in the    *)
(* registry is answered with an error frame on A's socket.                 *)
C14_UnknownTargetAnswered ==
    [][\A a \in Conn :
        (/\ MessageStep(a)
         /\ Registered(a)
         /\ IsForwarded(Head(inbox[a]))
         /\ Head(inbox[a]).to # Undefined
         /\ UnknownTarget(Head(inbox[a]).to))
            => ErrorSentTo(a)]_vars

(* C15: a well-formed frame of registered A whose type the relay does not  *)
(* know is answered with an error frame on A's socket, and A stays open.   *)
C15_UnknownTypeAnswered ==
    [][\A a \in Conn :
        (MessageStep(a) /\ Registered(a) /\ Head(inbox[a]).type = "ping")
            => /\ ErrorSentTo(a)
               /\ readyState'[a] = "OPEN"]_vars

(* f is malformed, of a type the protocol does not have, or names a        *)
(* target that is not in the registry                                      *)
Faulty(f) ==
    \/ f.type \in {"#not-json", "ping"}
    \/ f.to # Undefined /\ UnknownTarget(f.to)

(* C16: the handling of a faulty frame of A leaves the registry, the       *)
(* sockets, and the frames received by and pending from every other        *)
(* client as they were; of A's pending frames only the faulty one is gone, *)
(* so the later ones are handled as usual.                                 *)
C16_FaultContained ==
    [][\A a \in Conn :
        (MessageStep(a) /\ Faulty(Head(inbox[a])))
            => /\ clients' = clients
               /\ readyState' = readyState
               /\ clientId' = clientId
               /\ \A c \in Conn \ {a} : log'[c] = log[c] /\ inbox'[c] = inbox[c]]_vars

(* A has sent a frame that is not JSON or of no known type and then an     *)
(* offer to B; both are handled, the offer is on B's socket, and the third *)
(* client, registered and open, has its client-id frame only               *)
C16_Witness ==
    \E a, b, c \in Conn :
        /\ a # b /\ a # c /\ b # c
        /\ Len(sent) = 2
        /\ sent[1].conn = a /\ sent[2].conn = a
        /\ sent[1].frame.type \in {"#not-json", "ping"}
        /\ sent[2].frame.type = "offer"
        /\ sent[2].frame.to = clientId[b]
        /\ inbox[a] = <<>>
        /\ \E i \in DOMAIN log[b] : log[b][i].payload = 2
        /\ \A i \in DOMAIN log[b] : log[b][i].payload # 1
        /\ Registered(c) /\ readyState[c] = "OPEN" /\ Len(log[c]) = 1

(* C17: a bye of registered A with `to` = registered, open B puts A's bye  *)
(* on B's socket.                                                          *)
C17_ByeForwarded ==
    [][\A a, b \in Conn :
        (/\ MessageStep(a)
         /\ a # b
         /\ Registered(a) /\ Registered(b)
         /\ readyState[b] = "OPEN"
         /\ Head(inbox[a]).type = "bye"
         /\ Head(inbox[a]).to = clientId[b])
            => /\ Len(log'[b]) = Len(log[b]) + 1
               /\ log'[b][Len(log'[b])].type = "bye"
               /\ log'[b][Len(log'[b])].payload = Head(inbox[a]).payload]_vars

(* C18: an answer of another client B (of another id) reaches A only if   *)
(* an offer of A has reached B before and no answer of B has reached A     *)
(* yet; any other answer is dropped.                                       *)
C18_AnswerMatchesOffer ==
    \A a \in Conn : \A i \in DOMAIN log[a] :
        (/\ log[a][i].type = "answer"
         /\ clientId[SenderOf(log[a][i])] # clientId[a])
            => /\ Delivered("offer", a, SenderOf(log[a][i]))
               /\ \A j \in 1..(i - 1) :
                     log[a][j].type = "answer"
                         => SenderOf(log[a][j]) # SenderOf(log[a][i])

(* c has addressed no frame to a and has received no frame of a *)
NoNegotiation(a, c) ==
    /\ \A n \in DOMAIN sent :
          ~(sent[n].conn = c /\ sent[n].frame.to = clientId[a])
    /\ \A n \in DOMAIN sent :
          ~(sent[n].conn = a /\ sent[n].frame.to = clientId[c])
    /\ \A i \in DOMAIN log[c] :
          IsForwarded(log[c][i]) => SenderOf(log[c][i]) # a

(* C21: the close of A puts no frame on the socket of a client C that has  *)
(* exchanged nothing with A.                                               *)
C21_UnrelatedUntouched ==
    [][\A a, c \in Conn :
        (CloseStep(a) /\ a # c /\ NoNegotiation(a, c))
            => log'[c] = log[c]]_vars

(* C22: a close handler that removes an id the registry no longer holds    *)
(* (the removal of that id has run before) leaves the registry as it is    *)
(* and puts no frame on any socket.                                        *)
C22_RemovalIdempotent ==
    [][\A c \in Conn :
        (CloseStep(c) /\ UnknownTarget(clientId[c]))
            => /\ clients' = clients
               /\ log' = log]_vars

(* C31: no offer, answer or ice-candidate frame is on the socket of the    *)
(* client that sent it.                                                    *)
C31_NoEcho ==
    \A r \in Conn : \A i \in DOMAIN log[r] :
        IsForwarded(log[r][i]) => SenderOf(log[r][i]) # r

(* the relay has put the notification of the disconnection of id on a      *)
(* socket                                                                  *)
Notified(id) ==
    \E r \in Conn : \E j \in DOMAIN log[r] :
        /\ log[r][j].type = "peer-disconnected"
        /\ log[r][j].peerId = id

(* C32: the close handler of a client takes its id out of the registry and *)
(* puts nothing on the closed client's own socket, and a list-peers        *)
(* handled once the notification of a disconnection is on some socket is   *)
(* answered with a list without the disconnected id.                       *)
C32_GoneAfterNotified ==
    [][\A a \in Conn :
        /\ CloseStep(a)
              => /\ clients'[clientId[a]] = Undefined
                 /\ log'[a] = log[a]
        /\ (MessageStep(a) /\ Head(inbox[a]).type = "list-peers")
              => \A c \in Conn :
                    Len(log'[c]) > Len(log[c])
                        => \A id \in Ids :
                              Notified(id) => id \notin log'[c][Len(log'[c])].peers]_vars

(* the ids the Map has an entry for *)
RegistryIds == {id \in DOMAIN clients : clients[id] # Undefined}

(* the ids of the clients whose connection event has occurred and whose    *)
(* close event has not                                                     *)
LiveIds == {clientId[c] : c \in {d \in Conn : readyState[d] \in {"OPEN", "CLOSING"}}}

(* C33: after every event the registry holds exactly the ids of the        *)
(* clients that have connected and not closed, and the handling of a       *)
(* message, of whatever type, leaves the registry as it is.                *)
C33_RegistryIsLive ==
    [][/\ RegistryIds' = LiveIds'
       /\ \A a \in Conn : MessageStep(a) => clients' = clients]_vars

(* ===================== properties of the manager ======================= *)
(* m has taken a side in a negotiation: initiateCall or handleOffer has    *)
(* run on it                                                               *)
RoleComputed(m) == created[m] > 0

(* C7: once two parties have each computed their role for the pair,        *)
(* exactly one of them holds the one role and the other the other (the     *)
(* code's role is isInitiator).                                            *)
C7_RolesAgree ==
    \A a, b \in Mgr :
        (a # b /\ RoleComputed(a) /\ RoleComputed(b))
            => isInitiator[a] # isInitiator[b]

(* endCall has run on m after m had a peer connection, and m has none now *)
Ended(m) == created[m] > 0 /\ peerConnection[m] = Undefined

(* this step is the onmessage callback of m for Head(timers[m]) *)
SignalingStep(m) ==
    /\ timers[m] # <<>>
    /\ timers'[m] = Tail(timers[m])

(* C19: a signaling message that arrives at a manager whose call has been  *)
(* ended is dropped: the manager creates no peer connection and its        *)
(* closed connection stays as it is.                                       *)
C19_ClosedIsTerminal ==
    [][\A m \in Mgr :
        (SignalingStep(m) /\ Ended(m))
            => /\ peerConnection'[m] = Undefined
               /\ created'[m] = created[m]
               /\ pc'[m] = pc[m]]_vars

(* m has sent its offer and no answer has been applied *)
Waiting(m) ==
    /\ peerConnection[m] # Undefined
    /\ pc[m].signalingState = "have-local-offer"

(* a peer-disconnected frame is on its way to m's handler *)
DisconnectPending(m) ==
    \E i \in DOMAIN timers[m] : timers[m][i].type = "peer-disconnected"

(* C20: a manager that waits for the answer to its offer when the          *)
(* disconnect of its peer reaches it leaves the waiting state eventually.  *)
C20_WaitingEnds ==
    \A m \in Mgr : (Waiting(m) /\ DisconnectPending(m)) ~> ~Waiting(m)

(* this step invokes addIceCandidate on the peer connection of m *)
AddIceCandidateInvoked(m) ==
    /\ Len(tasks'[m]) = Len(tasks[m]) + 1
    /\ tasks'[m][Len(tasks'[m])].at = "addIceCandidate"

(* C25: addIceCandidate is invoked on a peer connection only after a       *)
(* setRemoteDescription on it has completed.                               *)
C25_CandidateAfterRemote ==
    [][\A m \in Mgr : AddIceCandidateInvoked(m) => pc[m].remote]_vars

(* this step passes a message of the given type to signaling.send of m *)
Sent(m, type) ==
    /\ Len(timers'[m]) = Len(timers[m]) + 1
    /\ timers'[m][Len(timers'[m])].type = type

(* this step moves the call tasks[m][i] of fn from its await of `from` on  *)
(* to the call of `to`                                                     *)
Advanced(m, i, fn, from, to) ==
    /\ tasks[m][i].fn = fn /\ tasks[m][i].at = from
    /\ tasks'[m][i].fn = fn /\ tasks'[m][i].at = to

(* this step ends the call tasks[m][i] *)
Ended_Task(m, i) == tasks'[m] = RemoveAt(tasks[m], i)

(* C26: a handleOffer call goes from setRemoteDescription to createAnswer  *)
(* to setLocalDescription and then sends one answer and returns; a call    *)
(* that ends otherwise has sent nothing and has raised its error; no       *)
(* other step sends an answer.                                             *)
C26_HandleOfferOrder ==
    [][\A m \in Mgr :
        /\ Len(tasks'[m]) = Len(tasks[m]) =>
              \A i \in DOMAIN tasks[m] :
                  (tasks[m][i].fn = "handleOffer" /\ tasks'[m][i] # tasks[m][i])
                      => /\ \/ Advanced(m, i, "handleOffer",
                                        "setRemoteDescription", "createAnswer")
                            \/ Advanced(m, i, "handleOffer",
                                        "createAnswer", "setLocalDescription")
                         /\ timers'[m] = timers[m]
        /\ Len(tasks'[m]) = Len(tasks[m]) - 1 =>
              \E i \in DOMAIN tasks[m] :
                  /\ Ended_Task(m, i)
                  /\ tasks[m][i].fn = "handleOffer" =>
                        \/ /\ tasks[m][i].at = "setLocalDescription"
                           /\ timers'[m] = Append(timers[m],
                                   SignalingMessage("answer", tasks[m][i].pcn))
                        \/ /\ timers'[m] = timers[m]
                           /\ \E e \in errors'[m] : e[1] = "handleOffer"
        /\ Sent(m, "answer") =>
              \E i \in DOMAIN tasks[m] :
                  /\ Ended_Task(m, i)
                  /\ tasks[m][i].fn = "handleOffer"
                  /\ tasks[m][i].at = "setLocalDescription"]_vars

(* one handleOffer call has gone through its steps and has sent its        *)
(* answer, another has failed and has sent none                            *)
C26_Witness ==
    \E m \in Mgr :
        /\ \E i \in DOMAIN timers[m] : timers[m][i].type = "answer"
        /\ \A i, j \in DOMAIN timers[m] :
              (timers[m][i].type = "answer" /\ timers[m][j].type = "answer") => i = j
        /\ \E e \in errors[m] : e[1] = "handleOffer"
        /\ tasks[m] = <<>>

(* C27: an initiateCall call goes from createOffer to setLocalDescription  *)
(* and then sends one offer and returns; a call that ends otherwise has    *)
(* sent nothing and has raised its error; no other step sends an offer.    *)
C27_InitiateCallOrder ==
    [][\A m \in Mgr :
        /\ Len(tasks'[m]) = Len(tasks[m]) =>
              \A i \in DOMAIN tasks[m] :
                  (tasks[m][i].fn = "initiateCall" /\ tasks'[m][i] # tasks[m][i])
                      => /\ Advanced(m, i, "initiateCall",
                                     "createOffer", "setLocalDescription")
                         /\ timers'[m] = timers[m]
        /\ Len(tasks'[m]) = Len(tasks[m]) - 1 =>
              \E i \in DOMAIN tasks[m] :
                  /\ Ended_Task(m, i)
                  /\ tasks[m][i].fn = "initiateCall" =>
                        \/ /\ tasks[m][i].at = "setLocalDescription"
                           /\ timers'[m] = Append(timers[m],
                                   SignalingMessage("offer", tasks[m][i].pcn))
                        \/ /\ timers'[m] = timers[m]
                           /\ \E e \in errors'[m] : e[1] = "initiateCall"
        /\ Sent(m, "offer") =>
              \E i \in DOMAIN tasks[m] :
                  /\ Ended_Task(m, i)
                  /\ tasks[m][i].fn = "initiateCall"
                  /\ tasks[m][i].at = "setLocalDescription"]_vars

(* one initiateCall call has sent its offer, another has failed and has    *)
(* sent none                                                               *)
C27_Witness ==
    \E m \in Mgr :
        /\ \E i \in DOMAIN timers[m] : timers[m][i].type = "offer"
        /\ \A i, j \in DOMAIN timers[m] :
              (timers[m][i].type = "offer" /\ timers[m][j].type = "offer") => i = j
        /\ \E e \in errors[m] : e[1] = "initiateCall"
        /\ tasks[m] = <<>>

(* this step has called handleSignalingMessage of m with message: the     *)
(* handler of its type has started (or has thrown for want of a peer       *)
(* connection)                                                             *)
Handled(m, message) ==
    LET fn == CASE message.type = "offer" -> "handleOffer"
                [] message.type = "answer" -> "handleAnswer"
                [] message.type = "ice-candidate" -> "handleIceCandidate"
                [] OTHER -> "none"
    IN  \/ fn = "none" /\ tasks'[m] = tasks[m]
        \/ /\ Len(tasks'[m]) = Len(tasks[m]) + 1
           /\ tasks'[m][Len(tasks'[m])].fn = fn
        \/ /\ tasks'[m] = tasks[m]
           /\ <<fn, "Peer connection not created">> \in errors'[m]

(* C28: the messages passed to send wait in the order of the calls; a      *)
(* call of send puts its message behind those waiting, a delivery hands    *)
(* the oldest waiting message to the handler and leaves the others         *)
(* waiting, and nothing else adds, drops or repeats a message.             *)
C28_ChannelFifo ==
    [][\A m \in Mgr :
        \/ timers'[m] = timers[m]
        \/ /\ Len(timers'[m]) = Len(timers[m]) + 1
           /\ SubSeq(timers'[m], 1, Len(timers[m])) = timers[m]
        \/ /\ timers[m] # <<>>
           /\ timers'[m] = Tail(timers[m])
           /\ Handled(m, Head(timers[m]))]_vars

(* an offer and then a candidate were passed to send and waited together;  *)
(* now only the candidate waits and handleOffer has started                *)
C28_Witness ==
    \E m \in Mgr :
        /\ Len(timers[m]) = 1
        /\ timers[m][1].type = "ice-candidate"
        /\ Len(tasks[m]) = 1
        /\ tasks[m][1].fn = "handleOffer"
        /\ ops = 2

(* C29: an offer that m has sent itself is never handled by m as a remote  *)
(* offer: its delivery starts no handleOffer call and leaves isInitiator   *)
(* as it is.  (Every message that waits in timers[m] was sent by m.)       *)
C29_OwnOfferNotHandled ==
    [][\A m \in Mgr :
        (SignalingStep(m) /\ Head(timers[m]).type = "offer")
            => /\ tasks'[m] = tasks[m]
               /\ isInitiator'[m] = isInitiator[m]]_vars

(* C30: once endCall has closed the channel of m and connect has not been  *)
(* called again, no message is delivered to the onmessage handler of m.    *)
C30_NoDeliveryAfterClose ==
    [][\A m \in Mgr :
        ~(SignalingStep(m) /\ Ended(m) /\ ~connected[m])]_vars

(* this step is an endCall() of m *)
EndCallStep(m) ==
    /\ ops' = ops + 1
    /\ peerConnection'[m] = Undefined
    /\ ~localStream'[m]
    /\ ~dataChannel'[m]
    /\ ~connected'[m]

(* C34: a step creates a peer connection for m only when m holds none, and *)
(* the one m holds stays the one it holds until an endCall of m: between   *)
(* two endCall calls m creates at most one.                                *)
C34_OneConnectionPerCall ==
    [][\A m \in Mgr :
        /\ created'[m] # created[m]
              => /\ peerConnection[m] = Undefined
                 /\ created'[m] = created[m] + 1
                 /\ peerConnection'[m] = created'[m]
        /\ peerConnection[m] # Undefined
              => \/ peerConnection'[m] = peerConnection[m]
                 \/ EndCallStep(m)]_vars

(* an initiateCall and a handleOffer of m are under way on the one         *)
(* connection m has created                                                *)
C34_Witness ==
    \E m \in Mgr :
        /\ created[m] = 1
        /\ \E i, j \in DOMAIN tasks[m] :
              /\ tasks[m][i].fn = "initiateCall"
              /\ tasks[m][j].fn = "handleOffer"
              /\ tasks[m][i].pcn = 1
              /\ tasks[m][j].pcn = 1

(* m holds no peer connection, no stream and no data channel, and its      *)
(* signaling channel is not connected                                      *)
Cleared(m) ==
    /\ peerConnection[m] = Undefined
    /\ ~localStream[m]
    /\ ~dataChannel[m]
    /\ ~connected[m]

(* C35: whatever state endCall of m is called in, it raises no error and m *)
(* is cleared after it; called on a cleared m it changes nothing of either *)
(* manager.                                                                *)
C35_EndCallClears ==
    [][\A m \in Mgr :
        EndCall(m)
            => /\ Cleared(m)'
               /\ errors' = errors
               /\ Cleared(m) =>
                     UNCHANGED <<peerConnection, created, pc, isInitiator, localStream,
                                 dataChannel, connected, timers, tasks, errors>>]_vars

(* endCall has closed the connection of m while a method of m was waiting  *)
(* on it, and m is cleared                                                 *)
C35_Witness ==
    \E m \in Mgr :
        /\ Cleared(m)
        /\ created[m] > 0
        /\ pc[m].signalingState = "closed"
        /\ tasks[m] # <<>>

(* the method handleSignalingMessage calls for a message of this type *)
HandlerOf(type) ==
    IF type = "answer" THEN "handleAnswer" ELSE "handleIceCandidate"

(* C36: an answer or an ice-candidate handled by a manager that holds no   *)
(* peer connection raises 'Peer connection not created' from handleAnswer  *)
(* or handleIceCandidate, starts no operation on a peer connection, and    *)
(* leaves peerConnection, isInitiator, dataChannel and localStream of the  *)
(* manager, and the connection it has closed, as they are.                 *)
C36_NoConnectionRejected ==
    [][\A m \in Mgr :
        (/\ SignalingStep(m)
         /\ Head(timers[m]).type \in {"answer", "ice-candidate"}
         /\ peerConnection[m] = Undefined)
            => /\ errors'[m] = errors[m] \cup
                     {<<HandlerOf(Head(timers[m]).type), "Peer connection not created">>}
               /\ tasks'[m] = tasks[m]
               /\ pc'[m] = pc[m]
               /\ peerConnection'[m] = peerConnection[m]
               /\ isInitiator'[m] = isInitiator[m]
               /\ dataChannel'[m] = dataChannel[m]
               /\ localStream'[m] = localStream[m]]_vars

(* an answer and a candidate have both reached a manager that had ended    *)
(* its call, and both have been rejected                                   *)
C36_Witness ==
    \E m \in Mgr :
        /\ peerConnection[m] = Undefined
        /\ <<"handleAnswer", "Peer connection not created">> \in errors[m]
        /\ <<"handleIceCandidate", "Peer connection not created">> \in errors[m]

(* ================ properties of two clients of the relay =============== *)
(* both clients are connected to the relay and one of them is in           *)
(* initiateCall                                                            *)
CallStarted ==
    /\ \A m \in Mgr : readyState[m] = "OPEN"
    /\ \E m \in Mgr : \E i \in DOMAIN tasks[m] : tasks[m][i].fn = "initiateCall"

(* both sides have a local and a remote description *)
Negotiated ==
    \A m \in Mgr :
        /\ peerConnection[m] # Undefined
        /\ pc[m].local
        /\ pc[m].remote

(* C23: with both clients connected, a call that one of them starts ends   *)
(* with a local and a remote description set on both sides.                *)
C23_CallCompletes == CallStarted ~> Negotiated

====
